---- MODULE Spec2Model ----
(***************************************************************************)
(* Model of the chart extraction engine of the dashboard frontend          *)
(* (frontend/src/utils/chartDataParser.js).                                *)
(*                                                                         *)
(* A response text is modelled as a sequence of segments: fenced json      *)
(* blocks, bare array literals in prose, markdown tables and labelled      *)
(* "label: number" lists, each with the title text that precedes it.       *)
(* parseChartsFromResponse is a process that walks the four strategies in  *)
(* the order of the code, one loop iteration per step; each reading of the *)
(* clock (Date.now) returns the last value or a later one.                 *)
(***************************************************************************)
EXTENDS Integers, Sequences, FiniteSets, TLC

(***************************************************************************)
(* JavaScript values that JSON.parse and parseFloat can produce.           *)
(***************************************************************************)
Num(n) == [t |-> "num", n |-> n, s |-> ""]

Str(s) == [t |-> "str", n |-> 0, s |-> s]

\* JSON null
Null == [t |-> "null", n |-> 0, s |-> ""]

\* the number Infinity (JSON.parse of an overflowing literal such as 1e999,
\* parseFloat of the text Infinity)
Inf == [t |-> "inf", n |-> 0, s |-> ""]

\* NaN (parseFloat of a text that does not start with a number)
NaN == [t |-> "nan", n |-> 0, s |-> ""]

\* a field whose value is itself an array, e.g. "tags": [1, 2]
Nested == [t |-> "arr", n |-> 0, s |-> ""]

\* one own property of an object, in insertion order
F(k, v) == [k |-> k, v |-> v]

\* an element of a parsed array: an object with ordered fields, or a primitive
Obj(fields) == [isObj |-> TRUE, f |-> fields]

Prim == [isObj |-> FALSE, f |-> <<>>]

\* a parsed JSON document: an array of elements, or something else
Arr(elems) == [isArray |-> TRUE, e |-> elems]

NotArray == [isArray |-> FALSE, e |-> <<>>]

\* Object.keys(item)
Keys(item) == [i \in 1..Len(item.f) |-> item.f[i].k]

\* 'k' in item
Has(item, k) == \E i \in 1..Len(item.f) : item.f[i].k = k

\* item[k]; undefined is modelled by the caller testing Has first
Get(item, k) == item.f[CHOOSE i \in 1..Len(item.f) : item.f[i].k = k].v

\* typeof v === 'number'
IsNumber(v) == v.t \in {"num", "inf", "nan"}

\* typeof v === 'number' && !isNaN(v) && isFinite(v)
IsFiniteNumber(v) == v.t = "num"

\* a value is falsy: 0, NaN, null, the empty string
Falsy(v) == \/ v.t = "null"
            \/ v.t = "nan"
            \/ (v.t = "num" /\ v.n = 0)
            \/ (v.t = "str" /\ v.s = "")

(***************************************************************************)
(* Validator                                                               *)
(***************************************************************************)
\* the callback of data.every(...): the first shape whose keys are present
\* decides
validItem(item) ==
  IF ~item.isObj THEN FALSE
  ELSE IF Len(item.f) = 0 THEN FALSE
  ELSE IF Has(item, "name") /\ Has(item, "value")
       THEN IsFiniteNumber(Get(item, "value"))
  ELSE IF Has(item, "x") /\ Has(item, "y")
       THEN IsNumber(Get(item, "x")) /\ IsNumber(Get(item, "y"))
  ELSE \E i \in 1..Len(item.f) : IsNumber(item.f[i].v) /\ item.f[i].v.t # "nan"

hasValidStructure(data) == \A i \in 1..Len(data.e) : validItem(data.e[i])

\* item.value || 0
ValueOrZero(item) ==
  IF ~Has(item, "value") THEN Num(0)
  ELSE IF Falsy(Get(item, "value")) THEN Num(0)
  ELSE Get(item, "value")

\* a + b of the reduce: numbers add, Infinity absorbs, anything else
\* concatenates to a string
JsAdd(a, b) ==
  IF a.t = "num" /\ b.t = "num" THEN Num(a.n + b.n)
  ELSE IF a.t \in {"num", "inf"} /\ b.t \in {"num", "inf"} THEN Inf
  ELSE Str("concat")

RECURSIVE SumFrom(_, _, _)
SumFrom(elems, i, acc) ==
  IF i > Len(elems) THEN acc
  ELSE SumFrom(elems, i + 1, JsAdd(acc, ValueOrZero(elems[i])))

\* values.reduce((a, b) => a + b, 0)
SumOfValues(elems) == SumFrom(elems, 1, Num(0))

\* a zero test on each value instead of on the sum
EveryValueZero(elems) == \A j \in 1..Len(elems) : ValueOrZero(elems[j]) = Num(0)

\* sum === 0
SumIsZero(elems) == SumOfValues(elems) = Num(0)

isValidChartData(data) ==
  IF ~data.isArray THEN FALSE
  ELSE IF Len(data.e) = 0 THEN FALSE
  ELSE IF ~hasValidStructure(data) THEN FALSE
  ELSE IF SumIsZero(data.e) THEN FALSE
  ELSE TRUE

(***************************************************************************)
(* Deduplicator                                                            *)
(***************************************************************************)
\* the strings that occur in the modelled texts, in collation order.
\* "Zo+U00EB" and "Zoe+U0308" stand for the two spellings of one name, with
\* the precomposed letter U+00EB and with e followed by the combining
\* diaeresis U+0308: different strings that are canonically equivalent
Strings == <<"", "5", "A", "abc", "B", "East", "Jan", "North", "South", "West",
             "Zo+U00EB", "Zoe+U0308">>

StrCode(s) == CHOOSE i \in 1..Len(Strings) : Strings[i] = s

\* the keys that occur in the modelled texts, in collation order
KeyNames == <<"a", "b", "birthday", "c", "count", "d", "Date", "e", "f", "month",
              "n", "name", "tags", "value", "x", "y">>

KeyCode(k) == CHOOSE i \in 1..Len(KeyNames) : KeyNames[i] = k

\* JSON.stringify of a field value, as a code that is equal for two values
\* exactly when their serialized texts are equal: Infinity and NaN serialize
\* as null
ValCode(v) ==
  CASE v.t = "num" -> 1000 + v.n
    [] v.t = "str" -> 100 + StrCode(v.s)
    [] v.t = "arr" -> 50
    [] OTHER -> 1

\* JSON.stringify(item): the fields in insertion order
RECURSIVE SerFrom(_, _)
SerFrom(item, i) ==
  IF i > Len(item.f) THEN <<>>
  ELSE <<KeyCode(item.f[i].k), ValCode(item.f[i].v)>> \o SerFrom(item, i + 1)

Stringify(item) == IF item.isObj THEN SerFrom(item, 1) ELSE <<0>>

\* the code of a serialized element under the collation of localeCompare,
\* which honours canonical equivalence: the two spellings get one code
CollationCode(c) ==
  IF c = 100 + StrCode("Zoe+U0308") THEN 100 + StrCode("Zo+U00EB") ELSE c

\* the collation key of a serialized form
CollationKey(ser) == [j \in 1..Len(ser) |-> CollationCode(ser[j])]

\* aStr.localeCompare(bStr) < 0, on collation keys
RECURSIVE LexLess(_, _)
LexLess(a, b) ==
  IF Len(b) = 0 THEN FALSE
  ELSE IF Len(a) = 0 THEN TRUE
  ELSE IF Head(a) < Head(b) THEN TRUE
  ELSE IF Head(a) > Head(b) THEN FALSE
  ELSE LexLess(Tail(a), Tail(b))

\* insert x after the elements that do not compare greater (stable)
RECURSIVE InsertSorted(_, _)
InsertSorted(sorted, x) ==
  IF Len(sorted) = 0 THEN <<x>>
  ELSE IF LexLess(CollationKey(Stringify(x)), CollationKey(Stringify(Head(sorted))))
       THEN <<x>> \o sorted
  ELSE <<Head(sorted)>> \o InsertSorted(Tail(sorted), x)

\* [...data].sort(compare)
RECURSIVE SortedCopy(_, _)
SortedCopy(elems, i) ==
  IF i = 0 THEN <<>>
  ELSE InsertSorted(SortedCopy(elems, i - 1), elems[i])

\* JSON.stringify(sorted)
createDataSignature(data) ==
  LET sorted == SortedCopy(data.e, Len(data.e))
  IN [i \in 1..Len(sorted) |-> Stringify(sorted[i])]

(***************************************************************************)
(* Titles and explicit type annotations                                    *)
(***************************************************************************)
\* A raw title string: an optional "Chart Title: " prefix, a base text, a
\* number for the generated "Chart N", a second line of text after a line
\* break ("" when the title is one line), and the annotation that ends it:
\* form "paren" is "(TYPE: kind)", "bracket" is "[kind]", "plain" is none.
\* form "null" stands for the null that the title finders return.
Raw(pfx, base, form, kind) ==
  [pfx |-> pfx, base |-> base, n |-> 0, line2 |-> "", form |-> form, kind |-> kind]

\* a title of two lines, "base\nline2", with the annotation after line2
TwoLines(base, line2, form, kind) == [Raw(FALSE, base, form, kind) EXCEPT !.line2 = line2]

NoRaw == Raw(FALSE, "", "null", "")

\* `Chart ${charts.length + 1}`
ChartN(n) == [Raw(FALSE, "Chart", "plain", "") EXCEPT !.n = n]

\* the display title of a ChartSpec: the string with whatever it still holds
Title(raw) == raw

\* match[1].trim(): the text in front of the annotation
Unannotated(raw) == [raw EXCEPT !.form = "plain", !.kind = ""]

\* typeStr.toLowerCase().trim()
ToLower(tok) ==
  CASE tok = "LINE" -> "line"
    [] tok = "Pie" -> "pie"
    [] tok = "Donut" -> "donut"
    [] OTHER -> tok

\* the own properties of the typeMap literal
typeMap ==
  [k \in {"bar", "column", "line", "pie", "donut", "area", "scatter",
          "scatterplot", "radar", "table", "heatmap", "gauge", "funnel",
          "treemap", "histogram"} |->
     CASE k = "column" -> "bar"
       [] k = "donut" -> "pie"
       [] k = "scatterplot" -> "scatter"
       [] OTHER -> k]

\* the lower-case property names every object literal inherits from
\* Object.prototype; their values are a function and an object, both truthy
InheritedKeys == {"constructor", "__proto__"}

\* the value a ChartSpec type gets when the lookup returns an inherited member
InheritedMember(k) == IF k = "constructor" THEN "function Object" ELSE "Object.prototype"

\* typeMap[normalized] || 'bar'
normalizeChartType(typeStr) ==
  LET normalized == ToLower(typeStr)
  IN IF normalized \in DOMAIN typeMap THEN typeMap[normalized]
     ELSE IF normalized \in InheritedKeys THEN InheritedMember(normalized)
     ELSE "bar"

\* type: null
NoType == "null"

\* /^(.*?)\s*\(TYPE:\s*(\w+)\)\s*$/i and /^(.*?)\s*\[(\w+)\]\s*$/i: the dot
\* matches no line break, so the text in front of the annotation is one line
PatternMatches(titleStr) ==
  titleStr.form \in {"paren", "bracket"} /\ titleStr.line2 = ""

extractTitleAndType(titleStr) ==
  IF PatternMatches(titleStr)
  THEN [title |-> Title(Unannotated(titleStr)),
        type |-> normalizeChartType(titleStr.kind)]
  ELSE [title |-> Title(titleStr), type |-> NoType]

\* /date|time|month|year|day|period/i.test(k), on the keys of KeyNames
IsTimeKey(k) == k \in {"month", "Date", "birthday"}

\* the same rules on the field names of all the records together
detectChartTypeAllRecords(data) ==
  LET names == UNION {{data.e[j].f[m].k : m \in 1..Len(data.e[j].f)} : j \in 1..Len(data.e)}
  IN IF {"x", "y"} \subseteq names THEN "scatter"
     ELSE IF \E k \in names : IsTimeKey(k) THEN "line"
     ELSE IF Cardinality(names) > 5 THEN "table"
     ELSE "bar"

detectChartType(data) ==
  IF Len(data.e) = 0 THEN "bar"
  ELSE LET keys == Keys(data.e[1])
           has(k) == \E i \in 1..Len(keys) : keys[i] = k
       IN IF has("x") /\ has("y") THEN "scatter"
          ELSE IF \E i \in 1..Len(keys) : IsTimeKey(keys[i]) THEN "line"
          ELSE IF Len(keys) > 5 THEN "table"
          ELSE "bar"

(***************************************************************************)
(* Layout                                                                  *)
(***************************************************************************)
\* rows that are half as far apart as the rectangles are high
calculatePositionHalfRows(index) ==
  LET row == index \div 2
      col == index % 2
  IN [x |-> col * 6, y |-> row * 2, w |-> 6, h |-> 4]

calculatePosition(index) ==
  LET row == index \div 2
      col == index % 2
  IN [x |-> col * 6, y |-> row * 4, w |-> 6, h |-> 4]

(***************************************************************************)
(* The response text                                                       *)
(***************************************************************************)
\* The title text in front of a candidate, given by what each title pattern
\* captures there: bold, heading and colon are the three patterns of
\* extractTitleBeforeCodeBlock (anchored at the end of the 150-character
\* window), near and listBold the two of extractTitleNearData (first match in
\* the 200-character window).
Pre(bold, heading, colon, near, listBold) ==
  [bold |-> bold, heading |-> heading, colon |-> colon, near |-> near,
   listBold |-> listBold]

\* no title text before the candidate
NoPre == Pre(NoRaw, NoRaw, NoRaw, NoRaw, NoRaw)

\* what /(?:#{1,3}\s+|\*\*)([\w\s]+?)(?:\*\*)?(?:\n|$)/ captures from a bold
\* or heading line: the line when it is made of word characters only, and
\* the first line of a title of two lines
WordsOnly(raw) ==
  IF raw.line2 # "" THEN Raw(FALSE, raw.base, "plain", "")
  ELSE IF raw.form = "plain" /\ ~raw.pfx THEN raw
  ELSE NoRaw

\* a line "**raw**" right before the candidate
BoldPre(raw) == Pre(raw, NoRaw, NoRaw, WordsOnly(raw), NoRaw)

\* a line "## raw" right before the candidate
HeadingPre(raw) == Pre(NoRaw, raw, NoRaw, WordsOnly(raw), NoRaw)

\* a label "raw:" right before the candidate
ColonPre(raw) == Pre(NoRaw, NoRaw, raw, NoRaw, NoRaw)

\* a list item "- **raw**: " right before the candidate
ListBoldPre(raw) == Pre(NoRaw, NoRaw, NoRaw, NoRaw, raw)

\* The text of a fenced block or of a bare array literal.  ok: the whole text
\* parses (JSON.parse returns val).  When it does not, looks tells whether
\* the inline array pattern still matches a part of it, innerOk whether
\* that part parses, and val is then the value of the part.
Body(ok, val, looks, innerOk) ==
  [ok |-> ok, val |-> val, looks |-> looks, innerOk |-> innerOk]

Json(val) == Body(TRUE, val, FALSE, FALSE)

\* text that is not JSON and holds no array of objects
Garbage == Body(FALSE, NotArray, FALSE, FALSE)

\* an array literal that the pattern matches and JSON.parse rejects, such as
\* [{name: A}]
BadArray == Body(FALSE, NotArray, TRUE, FALSE)

\* a block with a comment line before an array literal
Commented(val) == Body(FALSE, val, TRUE, TRUE)

NoBody == Garbage

Fence(pre, body) ==
  [kind |-> "fence", pre |-> pre, body |-> body, headers |-> <<>>,
   rows |-> <<>>, ltitle |-> "", items |-> <<>>]

Inline(pre, body) ==
  [kind |-> "inline", pre |-> pre, body |-> body, headers |-> <<>>,
   rows |-> <<>>, ltitle |-> "", items |-> <<>>]

\* a pipe table: header cells, a separator row, body rows of cells
Table(pre, headers, rows) ==
  [kind |-> "table", pre |-> pre, body |-> NoBody, headers |-> headers,
   rows |-> rows, ltitle |-> "", items |-> <<>>]

\* a heading or bold label followed by lines "- label: digits" or
\* "1. label: digits"
List(ltitle, items) ==
  [kind |-> "list", pre |-> NoPre, body |-> NoBody, headers |-> <<>>,
   rows |-> <<>>, ltitle |-> ltitle, items |-> items]

\* one list line with a bullet, "- label: num"
Item(label, num) == [marker |-> "-", label |-> label, num |-> num]

\* one list line with a number, "1. label: num"
Numbered(label, num) == [marker |-> "1.", label |-> label, num |-> num]

\* the array of objects has no bracket inside: /\[\s*\{[^[\]]*\}\s*(?:,\s*\{[^[\]]*\}\s*)*\]/
FlatObjectArray(val) ==
  /\ val.isArray
  /\ Len(val.e) > 0
  /\ \A i \in 1..Len(val.e) :
       /\ val.e[i].isObj
       /\ \A j \in 1..Len(val.e[i].f) : val.e[i].f[j].v.t # "arr"

\* the inline array pattern matches in the text of this body
RegexMatches(body) == IF body.ok THEN FlatObjectArray(body.val) ELSE body.looks

IsFence(seg) == seg.kind = "fence"

IsInlineMatch(seg) == seg.kind \in {"fence", "inline"} /\ RegexMatches(seg.body)

IsTable(seg) == seg.kind = "table"

\* The line pattern [-•\d.]\s+[^\n]+:\s*[\d,]+[^\n]*\n? starts at one
\* character of the class that is followed by white space.  A bulleted line
\* starts at its bullet.  In "1. label" only the dot qualifies, and the digit
\* in front of it belongs to no line: the first line gives it to the gap
\* [\s\S]{0,50}?, and a later line can only follow when the line before it
\* ends in a number of two or more characters, whose last digit with the
\* line break then stands for the marker.
EndsInLongNumber(num) == num \in {"120", "95", "1200", "1,200"}

Chains(prev, next) == next.marker = "-" \/ EndsInLongNumber(prev.num)

\* the number of leading lines that the repetition {3,} can take
RECURSIVE ChainedFrom(_, _)
ChainedFrom(items, j) ==
  IF j >= Len(items) THEN Len(items)
  ELSE IF Chains(items[j], items[j + 1]) THEN ChainedFrom(items, j + 1)
  ELSE j

\* match[2]: the lines of the section that sectionPattern matches, none when
\* fewer than 3 lines chain
listContent(items) ==
  IF Len(items) = 0 THEN <<>>
  ELSE LET n == ChainedFrom(items, 1)
       IN IF n >= 3 THEN SubSeq(items, 1, n) ELSE <<>>

IsList(seg) == seg.kind = "list" /\ Len(listContent(seg.items)) >= 3

\* the successive matches of codeBlockPattern.exec
FenceMatches(txt) == SelectSeq(txt, IsFence)

\* responseText.match(jsonArrayPattern)
JsonMatches(txt) == SelectSeq(txt, IsInlineMatch)

\* the successive matches of tablePattern.exec
TableMatches(txt) == SelectSeq(txt, IsTable)

\* the successive matches of sectionPattern.exec
ListMatches(txt) == SelectSeq(txt, IsList)

(***************************************************************************)
(* Title finders                                                           *)
(***************************************************************************)
\* boldMatch[1].trim().replace(/^Chart Title:\s*/i, '')
StripChartTitle(raw) == [raw EXCEPT !.pfx = FALSE]

\* the heading pattern tried before the bold pattern
extractTitleHeadingFirst(pre) ==
  IF pre.heading.form # "null" THEN pre.heading
  ELSE IF pre.bold.form # "null" THEN StripChartTitle(pre.bold)
  ELSE IF pre.colon.form # "null" THEN pre.colon
  ELSE NoRaw

extractTitleBeforeCodeBlock(pre) ==
  IF pre.bold.form # "null" THEN StripChartTitle(pre.bold)
  ELSE IF pre.heading.form # "null" THEN pre.heading
  ELSE IF pre.colon.form # "null" THEN pre.colon
  ELSE NoRaw

extractTitleNearData(pre) ==
  IF pre.near.form # "null" THEN pre.near
  ELSE IF pre.listBold.form # "null" THEN pre.listBold
  ELSE NoRaw

\* raw || fallback: null and the empty string are falsy
OrElse(raw, fallback) ==
  IF raw.form = "null" THEN fallback
  ELSE IF raw.form = "plain" /\ ~raw.pfx /\ raw.base = "" /\ raw.n = 0 THEN fallback
  ELSE raw

(***************************************************************************)
(* Tables and lists                                                        *)
(***************************************************************************)
\* parseFloat on the cell and number texts that occur in the modelled texts
parseFloat(s) ==
  CASE s = "120" -> Num(120)
    [] s = "95" -> Num(95)
    [] s = "5" -> Num(5)
    [] s = "-5" -> Num(0 - 5)
    [] s = "0" -> Num(0)
    [] s = "7" -> Num(7)
    [] s = "1200" -> Num(1200)
    [] s = "1,200" -> Num(1)
    [] s = "Infinity" -> Inf
    [] OTHER -> NaN

\* itemMatch[2].replace(/,/g, '')
StripCommas(s) ==
  CASE s = "1,200" -> "1200"
    [] s = "," -> ""
    [] OTHER -> s

\* xs.filter(c => c) on trimmed cells
RECURSIVE NonEmpty(_)
NonEmpty(cells) ==
  IF Len(cells) = 0 THEN <<>>
  ELSE (IF Head(cells) # "" THEN <<Head(cells)>> ELSE <<>>) \o NonEmpty(Tail(cells))

\* the record built from one body row
RowRecord(row) ==
  LET cells == NonEmpty(row)
      name == IF Len(cells) >= 1 THEN cells[1] ELSE ""
      parsed == IF Len(cells) >= 2 THEN parseFloat(cells[2]) ELSE NaN
      value == IF Falsy(parsed) THEN Num(0) ELSE parsed
  IN Obj(<<F("name", Str(name)), F("value", value)>>)

\* rows.map(...).filter(d => d.name && d.value)
RECURSIVE TableData(_)
TableData(rows) ==
  IF Len(rows) = 0 THEN <<>>
  ELSE LET d == RowRecord(Head(rows))
       IN (IF ~Falsy(Get(d, "name")) /\ ~Falsy(Get(d, "value")) THEN <<d>> ELSE <<>>)
          \o TableData(Tail(rows))

\* the name/value pairs of the item lines
RECURSIVE ListData(_)
ListData(items) ==
  IF Len(items) = 0 THEN <<>>
  ELSE LET name == Head(items).label
           value == parseFloat(StripCommas(Head(items).num))
       IN (IF name # "" /\ value.t # "nan"
           THEN <<Obj(<<F("name", Str(name)), F("value", value)>>)>> ELSE <<>>)
          \o ListData(Tail(items))

(***************************************************************************)
(* The extraction pipeline                                                 *)
(***************************************************************************)
MAX_CHARTS == 8

VARIABLES
  calls,               \* the number of calls of parseChartsFromResponse so far
  text,                \* responseText, as its sequence of segments
  pc,                  \* the strategy parseChartsFromResponse is in
  i,                   \* the index of the next match of that strategy
  charts,              \* the accumulated ChartSpecs
  seenDataSignatures,  \* the signatures of the accepted fenced/inline data
  local,               \* the charts array of extractChartsFromTables/Lists
  now,                 \* the last value Date.now() returned
  cand,                \* the data of the last fenced/inline candidate
  verdict              \* what the loop body did with it

\* The state of the user interface that calls the parser
VARIABLES
  chatInput,           \* ChatInterface: the input state
  chatMessages,        \* ChatInterface: the messages state
  chatLoading,         \* ChatInterface: the isLoading state
  chatInFlight,        \* ChatInterface: the calls of sendMessage not yet settled
  input,               \* DashboardChatPanel: the input state
  messages,            \* DashboardChatPanel: the messages state
  isLoading,           \* DashboardChatPanel: the isLoading state
  inFlight,            \* DashboardChatPanel: the calls of sendDashboardMessage not yet settled
  request,             \* DashboardChatPanel: how the last call of handleSend went
  storeLoading,        \* dashboardStore: isLoading
  storeCharts,         \* dashboardStore: charts
  layout,              \* dashboardStore: layout
  editingChartId,      \* DashboardPanel: the editingChartId state
  editedChart,         \* ChartEditorModal: the editedChart state, Null when not mounted
  pending,             \* parseDashboardCommands waits for the result of the parser
  ops                  \* the number of operations of the user on the dashboard so far

chatVars == <<chatInput, chatMessages, chatLoading, chatInFlight>>

panelVars == <<input, messages, isLoading, inFlight, request, storeLoading>>

storeVars == <<storeCharts, layout, editingChartId, editedChart, pending, ops>>

uiVars == <<chatVars, panelVars, storeVars>>

parserVars == <<calls, text, pc, i, charts, seenDataSignatures, local, now, cand, verdict>>

vars == <<calls, text, pc, i, charts, seenDataSignatures, local, now, cand, verdict,
          chatVars, panelVars, storeVars>>

\* the first message of DashboardChatPanel
Greeting == [role |-> "assistant", text |-> "Hi!"]

\* the user interface as it is mounted
UiInit ==
  /\ chatInput = ""
  /\ chatMessages = <<>>
  /\ chatLoading = FALSE
  /\ chatInFlight = 0
  /\ input = ""
  /\ messages = <<Greeting>>
  /\ isLoading = FALSE
  /\ inFlight = 0
  /\ request = "none"
  /\ storeLoading = FALSE
  /\ storeCharts = <<>>
  /\ layout = <<>>
  /\ editingChartId = Null
  /\ editedChart = Null
  /\ pending = FALSE
  /\ ops = 0

\* the latest time the clock reaches during a call
MaxClock == 1

\* the values Date.now() can return: the clock never runs backwards
ClockReadings == now..MaxClock

\* `chart_${Date.now()}_${n}`
ChartId(time, n) == [time |-> time, n |-> n]

\* the object pushed by the fenced and inline loops
NewChart(time, n, type, title, data) ==
  [id |-> ChartId(time, n), type |-> type, title |-> title, data |-> data,
   position |-> calculatePosition(n), showLegend |-> TRUE]

\* the try block without the duplicate check
AcceptNoDedup(data, foundTitle) ==
  IF ~isValidChartData(data)
  THEN /\ verdict' = "invalid"
       /\ UNCHANGED <<charts, seenDataSignatures, now>>
  ELSE LET titleRaw == OrElse(foundTitle, ChartN(Len(charts) + 1))
           tt == extractTitleAndType(titleRaw)
           chartType == IF tt.type # NoType THEN tt.type
                        ELSE detectChartType(data)
       IN /\ verdict' = "accepted"
          /\ seenDataSignatures' = seenDataSignatures \cup {createDataSignature(data)}
          /\ now' \in ClockReadings
          /\ charts' = Append(charts,
                NewChart(now', Len(charts), chartType, tt.title, data))

\* the try block with the signature sort done on data itself, not on a copy
AcceptSortingInPlace(data, foundTitle) ==
  IF ~isValidChartData(data)
  THEN /\ verdict' = "invalid"
       /\ UNCHANGED <<charts, seenDataSignatures, now>>
  ELSE LET dataSignature == createDataSignature(data)
           sortedData == [data EXCEPT !.e = SortedCopy(data.e, Len(data.e))]
       IN IF dataSignature \in seenDataSignatures
          THEN /\ verdict' = "duplicate"
               /\ UNCHANGED <<charts, seenDataSignatures, now>>
          ELSE LET titleRaw == OrElse(foundTitle, ChartN(Len(charts) + 1))
                   tt == extractTitleAndType(titleRaw)
                   chartType == IF tt.type # NoType THEN tt.type
                                ELSE detectChartType(sortedData)
               IN /\ verdict' = "accepted"
                  /\ seenDataSignatures' = seenDataSignatures \cup {dataSignature}
                  /\ now' \in ClockReadings
                  /\ charts' = Append(charts,
                        NewChart(now', Len(charts), chartType, tt.title, sortedData))

\* the body of the try block, after data was parsed: validate, deduplicate,
\* resolve title and type, push
Accept(data, foundTitle) ==
  IF ~isValidChartData(data)
  THEN /\ verdict' = "invalid"
       /\ UNCHANGED <<charts, seenDataSignatures, now>>
  ELSE LET dataSignature == createDataSignature(data)
       IN IF dataSignature \in seenDataSignatures
          THEN /\ verdict' = "duplicate"
               /\ UNCHANGED <<charts, seenDataSignatures, now>>
          ELSE LET titleRaw == OrElse(foundTitle, ChartN(Len(charts) + 1))
                   tt == extractTitleAndType(titleRaw)
                   chartType == IF tt.type # NoType THEN tt.type
                                ELSE detectChartType(data)
               IN /\ verdict' = "accepted"
                  /\ seenDataSignatures' = seenDataSignatures \cup {dataSignature}
                  /\ now' \in ClockReadings
                  /\ charts' = Append(charts,
                        NewChart(now', Len(charts), chartType, tt.title, data))

\* the iteration without the try/catch: the SyntaxError of JSON.parse
\* leaves the loop and the function
FencedStepNoCatch ==
  /\ pc = "fenced"
  /\ i <= Len(FenceMatches(text))
  /\ Len(charts) < MAX_CHARTS
  /\ LET seg == FenceMatches(text)[i]
     IN IF ~seg.body.ok
        THEN /\ cand' = NotArray
             /\ verdict' = "parsefail"
             /\ pc' = "threw"
             /\ UNCHANGED <<charts, seenDataSignatures, now>>
        ELSE /\ cand' = seg.body.val
             /\ pc' = pc
             /\ Accept(seg.body.val, extractTitleBeforeCodeBlock(seg.pre))
  /\ i' = i + 1
  /\ UNCHANGED <<uiVars, calls, text, local>>

\* one iteration of the while loop over the fenced blocks
FencedStep ==
  /\ pc = "fenced"
  /\ i <= Len(FenceMatches(text))
  /\ Len(charts) < MAX_CHARTS
  /\ LET seg == FenceMatches(text)[i]
     IN IF ~seg.body.ok
        THEN /\ cand' = NotArray
             /\ verdict' = "parsefail"
             /\ UNCHANGED <<charts, seenDataSignatures, now>>
        ELSE /\ cand' = seg.body.val
             /\ Accept(seg.body.val, extractTitleBeforeCodeBlock(seg.pre))
  /\ i' = i + 1
  /\ UNCHANGED <<uiVars, calls, text, pc, local>>

\* the loop ends: no further match, or the break at MAX_CHARTS
FencedExit ==
  /\ pc = "fenced"
  /\ (i > Len(FenceMatches(text)) \/ Len(charts) >= MAX_CHARTS)
  /\ pc' = "inline"
  /\ i' = 1
  /\ UNCHANGED <<uiVars, calls, text, charts, seenDataSignatures, local, now, cand, verdict>>

\* one iteration of the for loop over the inline array matches
InlineStep ==
  /\ pc = "inline"
  /\ i <= Len(JsonMatches(text))
  /\ Len(charts) < MAX_CHARTS
  /\ LET seg == JsonMatches(text)[i]
     IN IF ~(seg.body.ok \/ seg.body.innerOk)
        THEN /\ cand' = NotArray
             /\ verdict' = "parsefail"
             /\ UNCHANGED <<charts, seenDataSignatures, now>>
        ELSE /\ cand' = seg.body.val
             /\ Accept(seg.body.val, extractTitleNearData(seg.pre))
  /\ i' = i + 1
  /\ UNCHANGED <<uiVars, calls, text, pc, local>>

\* no match, the limit reached before the loop, or the loop ends
InlineExit ==
  /\ pc = "inline"
  /\ (i > Len(JsonMatches(text)) \/ Len(charts) >= MAX_CHARTS)
  /\ pc' = "tables"
  /\ i' = 1
  /\ UNCHANGED <<uiVars, calls, text, charts, seenDataSignatures, local, now, cand, verdict>>

\* r.includes('---'), on the cell texts that occur in the modelled texts
HasDashes(row) == \E c \in 1..Len(row) : row[c] \in {"---", "Q1---Q2"}

RECURSIVE BodyRows(_)
BodyRows(rows) ==
  IF Len(rows) = 0 THEN <<>>
  ELSE (IF HasDashes(Head(rows)) THEN <<>> ELSE <<Head(rows)>>) \o BodyRows(Tail(rows))

\* the chart extractChartsFromTables pushes for one table
TableChart(seg, time, n) ==
  [id |-> ChartId(time, n), type |-> "bar",
   title |-> Title(OrElse(extractTitleNearData(seg.pre), Raw(FALSE, "Data Table", "plain", ""))),
   data |-> Arr(TableData(BodyRows(seg.rows))),
   position |-> calculatePosition(n), showLegend |-> TRUE]

\* match[1].trim(): ([\w\s]+?) is lazy and the gap [\s\S]{0,50}? that follows
\* it takes the rest of a label of up to 50 characters, so the capture is the
\* first character of the label
FirstCharacter(label) ==
  CASE label = "Totals" -> "T"
    [] label = "Few" -> "F"
    [] label = "Ranks" -> "R"
    [] label = "Scores" -> "S"
    [] OTHER -> ""

\* the chart extractChartsFromLists pushes for one section
ListChart(seg, time, n) ==
  [id |-> ChartId(time, n), type |-> "bar",
   title |-> Title(OrElse(Raw(FALSE, FirstCharacter(seg.ltitle), "plain", ""),
                          Raw(FALSE, "Data Chart", "plain", ""))),
   data |-> Arr(ListData(listContent(seg.items))),
   position |-> calculatePosition(n), showLegend |-> FALSE]

\* slice without its end index
sliceAll(xs, n) == xs

\* the last n elements instead of the first
sliceFromEnd(xs, n) == SubSeq(xs, IF Len(xs) < n THEN 1 ELSE Len(xs) - n + 1, Len(xs))

\* xs.slice(0, n)
slice(xs, n) == SubSeq(xs, 1, IF Len(xs) < n THEN Len(xs) ELSE n)

\* the table stage is skipped when the limit is reached
TablesSkip ==
  /\ pc = "tables"
  /\ Len(charts) >= MAX_CHARTS
  /\ pc' = "lists"
  /\ UNCHANGED <<uiVars, calls, text, i, charts, seenDataSignatures, local, now, cand, verdict>>

\* one iteration of the while loop of extractChartsFromTables
TableStep ==
  /\ pc = "tables"
  /\ Len(charts) < MAX_CHARTS
  /\ i <= Len(TableMatches(text))
  /\ LET seg == TableMatches(text)[i]
         rows == BodyRows(seg.rows)
     IN IF Len(rows) > 0 /\ Len(NonEmpty(seg.headers)) >= 2
           /\ Len(TableData(rows)) > 0
        THEN /\ now' \in ClockReadings
             /\ local' = Append(local, TableChart(seg, now', Len(local)))
        ELSE UNCHANGED <<local, now>>
  /\ i' = i + 1
  /\ UNCHANGED <<uiVars, calls, text, pc, charts, seenDataSignatures, cand, verdict>>

\* the table charts put in front of the accumulated ones
TablesPrepend ==
  /\ pc = "tables"
  /\ Len(charts) < MAX_CHARTS
  /\ i > Len(TableMatches(text))
  /\ LET remainingSlots == MAX_CHARTS - Len(charts)
     IN charts' = slice(local, remainingSlots) \o charts
  /\ local' = <<>>
  /\ pc' = "lists"
  /\ i' = 1
  /\ UNCHANGED <<uiVars, calls, text, seenDataSignatures, now, cand, verdict>>

\* charts.push(...tableCharts.slice(0, remainingSlots))
TablesAppend ==
  /\ pc = "tables"
  /\ Len(charts) < MAX_CHARTS
  /\ i > Len(TableMatches(text))
  /\ LET remainingSlots == MAX_CHARTS - Len(charts)
     IN charts' = charts \o slice(local, remainingSlots)
  /\ local' = <<>>
  /\ pc' = "lists"
  /\ i' = 1
  /\ UNCHANGED <<uiVars, calls, text, seenDataSignatures, now, cand, verdict>>

\* the list stage is skipped when the limit is reached
ListsSkip ==
  /\ pc = "lists"
  /\ Len(charts) >= MAX_CHARTS
  /\ pc' = "done"
  /\ UNCHANGED <<uiVars, calls, text, i, charts, seenDataSignatures, local, now, cand, verdict>>

\* one iteration of the while loop of extractChartsFromLists
ListStep ==
  /\ pc = "lists"
  /\ Len(charts) < MAX_CHARTS
  /\ i <= Len(ListMatches(text))
  /\ LET seg == ListMatches(text)[i]
     IN IF Len(ListData(listContent(seg.items))) >= 3
        THEN /\ now' \in ClockReadings
             /\ local' = Append(local, ListChart(seg, now', Len(local)))
        ELSE UNCHANGED <<local, now>>
  /\ i' = i + 1
  /\ UNCHANGED <<uiVars, calls, text, pc, charts, seenDataSignatures, cand, verdict>>

\* charts.push(...listCharts.slice(0, remainingSlots)); return charts
ListsAppend ==
  /\ pc = "lists"
  /\ Len(charts) < MAX_CHARTS
  /\ i > Len(ListMatches(text))
  /\ LET remainingSlots == MAX_CHARTS - Len(charts)
     IN charts' = charts \o slice(local, remainingSlots)
  /\ local' = <<>>
  /\ pc' = "done"
  /\ i' = 1
  /\ UNCHANGED <<uiVars, calls, text, seenDataSignatures, now, cand, verdict>>

(***************************************************************************)
(* The response texts of the model                                         *)
(***************************************************************************)
\* the longest run of distinct valid fenced blocks at the start of a text
MaxRun == 9

\* the number of further segments after the run
MaxTail == 2

\* the longest array in a text made of one fenced block
MaxLen == 2

\* [{"name":"A","value":k},{"name":"B","value":1}]
V(k) == Arr(<<Obj(<<F("name", Str("A")), F("value", Num(k))>>),
              Obj(<<F("name", Str("B")), F("value", Num(1))>>)>>)

\* the records of V(1) in the other order
VPermuted == Arr(<<Obj(<<F("name", Str("B")), F("value", Num(1))>>),
                   Obj(<<F("name", Str("A")), F("value", Num(1))>>)>>)

XYOnly == Arr(<<Obj(<<F("x", Num(1)), F("y", Num(2))>>),
                Obj(<<F("x", Num(3)), F("y", Num(4))>>)>>)

WithTags == Arr(<<Obj(<<F("name", Str("A")), F("value", Num(7)), F("tags", Nested)>>)>>)

Monthly == Arr(<<Obj(<<F("month", Str("Jan")), F("value", Num(3))>>)>>)

EastWest == Arr(<<Obj(<<F("name", Str("East")), F("value", Num(120))>>),
                  Obj(<<F("name", Str("West")), F("value", Num(95))>>)>>)

\* the all-zero block
ZeroZero == Arr(<<Obj(<<F("name", Str("A")), F("value", Num(0))>>),
                  Obj(<<F("name", Str("B")), F("value", Num(0))>>)>>)

Wide == Arr(<<Obj(<<F("a", Num(1)), F("b", Num(1)), F("c", Num(1)), F("d", Num(1)),
                    F("e", Num(1)), F("value", Num(1))>>)>>)

\* six fields, one of them a date
WideDated == Arr(<<Obj(<<F("a", Num(1)), F("b", Num(1)), F("c", Num(1)), F("d", Num(1)),
                         F("Date", Str("Jan")), F("value", Num(1))>>)>>)

\* five fields
Five == Arr(<<Obj(<<F("a", Num(1)), F("b", Num(1)), F("c", Num(1)), F("d", Num(1)),
                    F("value", Num(1))>>)>>)

\* coordinates and a month
XYMonth == Arr(<<Obj(<<F("x", Num(1)), F("y", Num(2)), F("month", Str("Jan")),
                       F("value", Num(1))>>)>>)

Birthdays == Arr(<<Obj(<<F("birthday", Str("Jan")), F("value", Num(1))>>)>>)

\* two records that differ in the spelling of one name
Spelled == Arr(<<Obj(<<F("name", Str("Zo+U00EB")), F("value", Num(1))>>),
                 Obj(<<F("name", Str("Zoe+U0308")), F("value", Num(1))>>)>>)

\* the records of Spelled in the other order
SpelledPermuted == Arr(<<Obj(<<F("name", Str("Zoe+U0308")), F("value", Num(1))>>),
                         Obj(<<F("name", Str("Zo+U00EB")), F("value", Num(1))>>)>>)

\* k distinct valid fenced blocks V(1) .. V(k), none with a title; the first
\* is followed by a block that does not parse and by a block with the
\* records of V(1) in the other order
RECURSIVE Run(_)
Run(k) ==
  IF k = 0 THEN <<>>
  ELSE IF k = 1 THEN <<Fence(NoPre, Json(V(1))), Fence(NoPre, Garbage),
                       Fence(NoPre, Json(VPermuted))>>
  ELSE Append(Run(k - 1), Fence(NoPre, Json(V(k))))

\* the segments that follow the run
Pool ==
  { Inline(ListBoldPre(Raw(FALSE, "Trend", "bracket", "Donut")), Json(Monthly)),
    Inline(NoPre, Json(EastWest)),
    Table(NoPre, <<"Region", "Sales">>, <<<<"East", "120">>, <<"West", "95">>>>),
    List("Totals", <<Item("North", "1,200"), Item("South", "7"), Item("East", "5"),
                     Item("West", ",")>>) }

\* segments that are tried alone and after one accepted fenced block
Solo ==
  { Fence(BoldPre(Raw(FALSE, "Revenue", "paren", "line")), Json(V(2))),
    Fence(BoldPre(Raw(TRUE, "Sales", "bracket", "constructor")), Json(WithTags)),
    Fence(NoPre, BadArray),
    Fence(NoPre, Json(ZeroZero)),
    Fence(HeadingPre(Raw(FALSE, "Wide", "plain", "")), Commented(Wide)),
    Fence(ColonPre(Raw(FALSE, "Points", "plain", "")), Json(XYOnly)),
    Inline(NoPre, BadArray),
    Table(BoldPre(Raw(FALSE, "Net", "plain", "")), <<"Item", "", "Delta">>,
          <<<<"A", "5">>, <<"", "B", "-5">>, <<"Q1---Q2", "7">>, <<"North", "abc">>>>),
    Table(NoPre, <<"Only">>, <<<<"A", "5">>>>),
    Table(NoPre, <<"", "Sales">>, <<<<"East", "120">>>>),
    Table(NoPre, <<"Item", "Max">>, <<<<"A", "Infinity">>, <<"B", "0">>>>),
    List("Few", <<Item("A", "5"), Item("B", "7")>>),
    List("", <<Item("A", "0"), Item("B", "0"), Item("East", "0")>>),
    List("Ranks", <<Numbered("A", "5"), Numbered("B", "7"), Numbered("East", "5")>>),
    List("Scores", <<Numbered("East", "120"), Numbered("West", "95"),
                     Numbered("North", "7")>>),
    Fence(BoldPre(TwoLines("Quarterly", "Revenue", "paren", "line")), Json(V(2))),
    Fence(NoPre, Json(WideDated)),
    Fence(NoPre, Json(Five)),
    Fence(NoPre, Json(XYMonth)),
    Fence(NoPre, Json(Birthdays)),
    Inline(NoPre, Json(SpelledPermuted)),
    \* "## **Both**": the bold pattern and the heading pattern both match
    Fence(Pre(Raw(FALSE, "Both", "plain", ""), Raw(FALSE, "**Both**", "plain", ""),
              NoRaw, Raw(FALSE, "Both", "plain", ""), NoRaw), Json(V(3))),
    \* "## Topic:": the heading pattern and the colon pattern both match
    Fence(Pre(NoRaw, Raw(FALSE, "Topic:", "plain", ""),
              Raw(FALSE, "## Topic", "plain", ""), NoRaw, NoRaw), Json(V(3))),
    \* "**Chart Title:**": the bold pattern matches and nothing is left of
    \* the capture after the prefix is removed
    Fence(BoldPre(Raw(TRUE, "", "plain", "")), Json(V(3))) }

SeqsUpTo(S, n) == UNION {[1..m -> S] : m \in 0..n}

\* the lengths of the runs: short ones, and those around MAX_CHARTS
RunLengths == {0, 1} \cup ((MAX_CHARTS - 1)..MaxRun)

RunTexts == {Run(k) \o tail : k \in RunLengths, tail \in SeqsUpTo(Pool, MaxTail)}

\* the elements of the arrays that are validated one at a time
ItemPool ==
  { Obj(<<F("name", Str("A")), F("value", Num(0))>>),
    Obj(<<F("name", Str("A")), F("value", Num(1))>>),
    Obj(<<F("name", Str("B")), F("value", Num(0 - 1))>>),
    Obj(<<F("name", Str("A")), F("value", Str("abc"))>>),
    Obj(<<F("name", Str("B")), F("value", Null), F("n", Num(3))>>),
    Obj(<<F("x", Num(1)), F("y", Num(2))>>),
    Obj(<<F("x", Num(1)), F("y", Inf), F("value", Num(1))>>),
    Obj(<<F("x", Str("abc")), F("y", Num(1)), F("n", Num(1))>>),
    Obj(<<F("n", Num(1))>>),
    Obj(<<F("n", Inf)>>),
    Obj(<<F("value", Str("abc")), F("n", Num(1))>>),
    Obj(<<>>),
    Prim }

Datasets == {Arr(e) : e \in SeqsUpTo(ItemPool, MaxLen)} \cup {NotArray}

\* a text whose only data is one fenced block
SingleTexts == {<<Fence(NoPre, Json(d))>> : d \in Datasets}

SoloTexts == {Run(k) \o <<seg>> : k \in 0..1, seg \in Solo}

\* one dataset twice, the second time with its records in the other order
TwiceTexts ==
  { <<Fence(NoPre, Json(Spelled)), Fence(NoPre, Json(SpelledPermuted))>>,
    <<Fence(NoPre, Json(Spelled)), Inline(NoPre, Json(SpelledPermuted))>>,
    <<Fence(HeadingPre(Raw(FALSE, "First", "plain", "")), Json(EastWest)),
      Fence(HeadingPre(Raw(FALSE, "Second", "plain", "")), Json(EastWest))>> }

Texts == RunTexts \cup SingleTexts \cup SoloTexts \cup TwiceTexts

Init ==
  /\ UiInit
  /\ calls = 1
  /\ text \in Texts
  /\ pc = "fenced"
  /\ i = 1
  /\ charts = <<>>
  /\ seenDataSignatures = {}
  /\ local = <<>>
  /\ now = 0
  /\ cand = NotArray
  /\ verdict = "none"

Next ==
  \/ FencedStep
  \/ FencedExit
  \/ InlineStep
  \/ InlineExit
  \/ TablesSkip
  \/ TableStep
  \/ TablesAppend
  \/ ListsSkip
  \/ ListStep
  \/ ListsAppend

Spec == Init /\ [][Next]_vars

(***************************************************************************)
(* Successive calls                                                        *)
(***************************************************************************)
\* the number of calls that follow one another
MaxCalls == 2

\* the texts of the calls that follow one another
CallTexts ==
  {Run(k) \o tail : k \in {0, 1, MAX_CHARTS}, tail \in SeqsUpTo(Pool, 1)} \cup TwiceTexts

\* parseChartsFromResponse is called again after it returned, and starts
\* from its declarations, but the state it keeps across calls is not fresh
CallKeepingSeen ==
  /\ pc = "done"
  /\ calls < MaxCalls
  /\ calls' = calls + 1
  /\ text' \in CallTexts
  /\ pc' = "fenced"
  /\ i' = 1
  /\ charts' = <<>>
  /\ local' = <<>>
  /\ cand' = NotArray
  /\ verdict' = "none"
  /\ UNCHANGED <<uiVars, seenDataSignatures, now>>

\* parseChartsFromResponse is called again after it returned: the function is
\* synchronous, charts and seenDataSignatures are its own constants and the
\* patterns with their lastIndex are created in the call; the clock goes on
Call ==
  /\ pc = "done"
  /\ calls < MaxCalls
  /\ calls' = calls + 1
  /\ text' \in CallTexts
  /\ pc' = "fenced"
  /\ i' = 1
  /\ charts' = <<>>
  /\ seenDataSignatures' = {}
  /\ local' = <<>>
  /\ cand' = NotArray
  /\ verdict' = "none"
  /\ UNCHANGED <<uiVars, now>>

InitCalls ==
  /\ UiInit
  /\ calls = 1
  /\ text \in CallTexts
  /\ pc = "fenced"
  /\ i = 1
  /\ charts = <<>>
  /\ seenDataSignatures = {}
  /\ local = <<>>
  /\ now = 0
  /\ cand = NotArray
  /\ verdict = "none"

NextCalls ==
  \/ FencedStep
  \/ FencedExit
  \/ InlineStep
  \/ InlineExit
  \/ TablesSkip
  \/ TableStep
  \/ TablesAppend
  \/ ListsSkip
  \/ ListStep
  \/ ListsAppend
  \/ Call

SpecCalls == InitCalls /\ [][NextCalls]_vars

(***************************************************************************)
(* Properties                                                              *)
(***************************************************************************)
Min(a, b) == IF a < b THEN a ELSE b

Signature(chart) == createDataSignature(chart.data)

\* the data of the fenced blocks of txt that parse, are valid and are the
\* first of their signature among the fenced blocks, in text order
RECURSIVE DistinctValidFenced(_, _, _)
DistinctValidFenced(txt, j, seen) ==
  IF j > Len(txt) THEN <<>>
  ELSE IF txt[j].kind = "fence" /\ txt[j].body.ok /\ isValidChartData(txt[j].body.val)
       THEN LET sig == createDataSignature(txt[j].body.val)
            IN IF sig \in seen THEN DistinctValidFenced(txt, j + 1, seen)
               ELSE <<txt[j].body.val>> \o DistinctValidFenced(txt, j + 1, seen \cup {sig})
  ELSE DistinctValidFenced(txt, j + 1, seen)

\* the ChartSpecs of cs have pairwise different data signatures
DistinctSignatures(cs) ==
  Cardinality({Signature(cs[j]) : j \in 1..Len(cs)}) = Len(cs)

\* C1: the result of extract never has more than 8 ChartSpecs, whatever the
\* number and mix of candidates in the text; the call still completes.
C1_AtMostEightCharts == Len(charts) <= 8

\* C1 witness: a completed call with 7 fenced charts and two tables, of
\* which only one fits
C1_Witness ==
  /\ pc = "done"
  /\ Len(charts) = 8
  /\ Len(DistinctValidFenced(text, 1, {})) = 7
  /\ Len(TableMatches(text)) = 2

\* C2: with d distinct valid fenced blocks in the text, the fenced stage
\* leaves exactly min(8, d) ChartSpecs, one per distinct valid block in
\* text order, which stay the first ChartSpecs of the result; blocks that are
\* skipped take no slot, and the inline scan adds no ChartSpec whose data has
\* the signature of an earlier one.
C2_FencedBlocksInOrder ==
  /\ ((pc = "inline" /\ i = 1) \/ pc = "done") =>
       LET d == DistinctValidFenced(text, 1, {})
       IN LET m == Min(8, Len(d))
          IN /\ pc = "inline" => Len(charts) = m
             /\ Len(charts) >= m
             /\ SubSeq([j \in 1..Len(charts) |-> charts[j].data], 1, m) = SubSeq(d, 1, m)
  /\ (pc = "tables" /\ i = 1) => DistinctSignatures(charts)

\* C2 witness: a completed call on a text with more than 8 distinct valid
\* fenced blocks, an unparsable and a duplicate block among them
C2_Witness ==
  /\ pc = "done"
  /\ Len(DistinctValidFenced(text, 1, {})) > 8
  /\ Len(charts) = 8
  /\ \E j \in 1..Len(text) : text[j].kind = "fence" /\ ~text[j].body.ok
  /\ \E j \in 1..Len(text) : text[j].kind = "fence" /\ text[j].body.val = VPermuted

\* C3: no two ChartSpecs of one result have data with the same signature,
\* whichever strategies produced them.
C3_NoSharedSignature == DistinctSignatures(charts)

\* C4: the data of every ChartSpec of the result is accepted by
\* isValidChartData.
C4_EveryDataValid ==
  \A j \in 1..Len(charts) : isValidChartData(charts[j].data)

\* C5: the ChartSpec at 0-based index n of the result has the position
\* {x: (n mod 2)*6, y: floor(n/2)*4, w: 6, h: 4}.
C5_PositionFromOutputIndex ==
  \A j \in 1..Len(charts) :
    charts[j].position =
      [x |-> ((j - 1) % 2) * 6, y |-> ((j - 1) \div 2) * 4, w |-> 6, h |-> 4]

\* C6: the ChartSpecs of one result have pairwise distinct ids.
C6_DistinctIds ==
  \A j, k \in 1..Len(charts) : j < k => charts[j].id # charts[k].id

CanonicalKinds ==
  {"bar", "line", "pie", "area", "scatter", "radar", "table", "heatmap",
   "gauge", "funnel", "treemap", "histogram"}

\* C7: the type of every ChartSpec of the result is one of the 12 canonical
\* kinds, for every explicit type token in a title annotation.
C7_CanonicalType ==
  \A j \in 1..Len(charts) : charts[j].type \in CanonicalKinds

\* every record has exactly the fields x and y, both finite numbers
XYRecords(data) ==
  /\ data.isArray
  /\ Len(data.e) > 0
  /\ \A j \in 1..Len(data.e) :
       /\ data.e[j].isObj
       /\ Len(data.e[j].f) = 2
       /\ Has(data.e[j], "x") /\ Has(data.e[j], "y")
       /\ Get(data.e[j], "x").t = "num" /\ Get(data.e[j], "y").t = "num"

\* C8: a response whose only data is a fenced array of records with just
\* numeric x and y, with no type annotation in its title, yields one
\* ChartSpec of type scatter.
C8_XYIsScatter ==
  (/\ pc = "done"
   /\ Len(text) = 1
   /\ text[1].kind = "fence"
   /\ text[1].body.ok
   /\ XYRecords(text[1].body.val)
   /\ extractTitleBeforeCodeBlock(text[1].pre).form \in {"null", "plain"})
  => (Len(charts) = 1 /\ charts[1].type = "scatter")

\* the value fields that are present are all finite numbers
NumericValues(data) ==
  \A j \in 1..Len(data.e) :
    (data.e[j].isObj /\ Has(data.e[j], "value")) => Get(data.e[j], "value").t = "num"

\* the sum of the value fields, an absent one counting 0
RECURSIVE ValueSum(_, _)
ValueSum(elems, j) ==
  IF j > Len(elems) THEN 0
  ELSE (IF elems[j].isObj /\ Has(elems[j], "value") THEN Get(elems[j], "value").n ELSE 0)
       + ValueSum(elems, j + 1)

ShapeA(item) == Has(item, "name") /\ Has(item, "value") /\ Get(item, "value").t = "num"

ShapeB(item) == /\ Has(item, "x") /\ Has(item, "y")
                /\ IsNumber(Get(item, "x")) /\ IsNumber(Get(item, "y"))

ShapeC(item) == \E j \in 1..Len(item.f) : item.f[j].v.t = "num"

\* C10: for a non-empty array of records with at least one key each and a
\* value sum that is not zero, the validator accepts exactly when every
\* element satisfies (a), (b) or (c).
C10_AcceptsIffSomeShape ==
  (/\ verdict \in {"invalid", "duplicate", "accepted"}
   /\ cand.isArray
   /\ Len(cand.e) > 0
   /\ \A j \in 1..Len(cand.e) : cand.e[j].isObj /\ Len(cand.e[j].f) > 0
   /\ ~SumIsZero(cand.e))
  => ((verdict # "invalid") <=>
      \A j \in 1..Len(cand.e) :
        ShapeA(cand.e[j]) \/ ShapeB(cand.e[j]) \/ ShapeC(cand.e[j]))

\* fenced blocks whose whole text parses
ParsesWhole(seg) == seg.body.ok

\* matches of the inline pattern whose matched text parses
ParsesPart(seg) == seg.body.ok \/ seg.body.innerOk

\* the parsed candidates in the order the fenced and the inline loop meet them
Processed(txt) ==
  LET segs == SelectSeq(FenceMatches(txt), ParsesWhole) \o SelectSeq(JsonMatches(txt), ParsesPart)
  IN [j \in 1..Len(segs) |-> segs[j].body.val]

\* the number of times record r occurs in elems
Count(elems, r) == Cardinality({j \in 1..Len(elems) : elems[j] = r})

\* two arrays hold the same multiset of records
SameRecords(a, b) ==
  /\ a.isArray /\ b.isArray
  /\ Len(a.e) = Len(b.e)
  /\ \A j \in 1..Len(a.e) : Count(a.e, a.e[j]) = Count(b.e, a.e[j])

\* the first parsed candidate of txt with the records of data
FirstWithRecords(txt, data) ==
  LET p == Processed(txt)
      first == CHOOSE j \in 1..Len(p) :
                 /\ SameRecords(p[j], data)
                 /\ \A k \in 1..(j - 1) : ~SameRecords(p[k], data)
  IN p[first]

\* C11: when fenced blocks or inline arrays of one text hold the same
\* multiset of records, in whatever order, the fenced and inline stages leave
\* exactly one ChartSpec with these records, and its data is the first
\* occurrence processed, in its own record order.
C11_DuplicateCollapses ==
  (pc = "tables" /\ i = 1) =>
    /\ \A j, k \in 1..Len(charts) :
         j < k => ~SameRecords(charts[j].data, charts[k].data)
    /\ \A j \in 1..Len(charts) :
         charts[j].data = FirstWithRecords(text, charts[j].data)

\* the number of records of elems with the serialized form ser
CountSerialized(elems, ser) ==
  Cardinality({j \in 1..Len(elems) : Stringify(elems[j]) = ser})

\* two arrays hold the same multiset of serialized records
SameSerialized(a, b) ==
  /\ Len(a.e) = Len(b.e)
  /\ \A j \in 1..Len(a.e) :
       CountSerialized(a.e, Stringify(a.e[j])) = CountSerialized(b.e, Stringify(a.e[j]))

\* C12: the signature is a canonical form of the multiset of records: two
\* parsed arrays of one text that are permutations of each other have equal
\* signatures, and two whose multisets of serialized records differ have
\* different signatures.
C12_SignatureCanonical ==
  pc = "done" =>
    LET p == Processed(text)
    IN \A j, k \in 1..Len(p) :
         (p[j].isArray /\ p[k].isArray) =>
           /\ SameRecords(p[j], p[k]) =>
                createDataSignature(p[j]) = createDataSignature(p[k])
           /\ ~SameSerialized(p[j], p[k]) =>
                createDataSignature(p[j]) # createDataSignature(p[k])

\* the candidate that the last step of the fenced or inline loop handled
LastCandidate == IF pc = "fenced" THEN FenceMatches(text)[i - 1] ELSE JsonMatches(text)[i - 1]

\* the title text found in front of it
FoundTitle ==
  IF pc = "fenced" THEN extractTitleBeforeCodeBlock(LastCandidate.pre)
  ELSE extractTitleNearData(LastCandidate.pre)

\* the last step of the fenced or inline loop pushed a ChartSpec
JustAccepted == pc \in {"fenced", "inline"} /\ i > 1 /\ verdict = "accepted"

\* C13: when the title resolved for an accepted fenced or inline candidate
\* ends with "(TYPE: kind)" or "[kind]", the ChartSpec title is the title
\* without the annotation and the ChartSpec type is the normalization of
\* kind, whatever the data shape would infer.
C13_AnnotationGivesType ==
  (JustAccepted /\ FoundTitle.form \in {"paren", "bracket"}) =>
    LET c == charts[Len(charts)]
    IN /\ c.title = Unannotated(FoundTitle)
       /\ c.type = normalizeChartType(FoundTitle.kind)

\* the mapping of type tokens the claim states
ClaimedNormalization(tok) ==
  LET t == ToLower(tok)
  IN IF t \in CanonicalKinds THEN t
     ELSE IF t = "donut" THEN "pie"
     ELSE IF t = "scatterplot" THEN "scatter"
     ELSE "bar"

\* C14: normalizeChartType maps each canonical kind to itself, column to
\* bar, donut to pie, scatterplot to scatter and every other token to bar,
\* case-insensitively; so does the type of a ChartSpec whose title carries
\* the token in an annotation.
C14_NormalizeMapping ==
  (JustAccepted /\ PatternMatches(FoundTitle)) =>
    /\ normalizeChartType(FoundTitle.kind) = ClaimedNormalization(FoundTitle.kind)
    /\ charts[Len(charts)].type = ClaimedNormalization(FoundTitle.kind)

\* the type the stated rules give for the field names of one record
ClaimedInference(first) ==
  LET names == {first.f[m].k : m \in 1..Len(first.f)}
  IN IF "x" \in names /\ "y" \in names THEN "scatter"
     ELSE IF \E k \in names : IsTimeKey(k) THEN "line"
     ELSE IF Cardinality(names) > 5 THEN "table"
     ELSE "bar"

\* C15: the type of a ChartSpec whose title has no annotation is inferred
\* from the field names of its first record only: x and y give scatter,
\* otherwise a time-related name gives line, otherwise more than 5 fields
\* give table, otherwise bar; later records do not matter.
C15_FirstRecordInference ==
  (JustAccepted /\ FoundTitle.form \notin {"paren", "bracket"}) =>
    charts[Len(charts)].type = ClaimedInference(cand.e[1])

\* C15 witness: an accepted block without annotation whose first record has
\* more than 5 fields, one of them a date, and whose type is line
C15_Witness ==
  /\ JustAccepted
  /\ FoundTitle.form \notin {"paren", "bracket"}
  /\ cand = WideDated
  /\ charts[Len(charts)].type = "line"

\* what the claim compares of a ChartSpec: all but the id
Shown(c) == [type |-> c.type, title |-> c.title, data |-> c.data, position |-> c.position]

\* the accumulator after one parsed candidate, as a function of the
\* accumulator before it
ExpectedAccept(acc, data, foundTitle) ==
  IF ~isValidChartData(data) THEN acc
  ELSE IF createDataSignature(data) \in acc.seen THEN acc
  ELSE LET tt == extractTitleAndType(OrElse(foundTitle, ChartN(Len(acc.charts) + 1)))
       IN [charts |-> Append(acc.charts,
                        [type |-> IF tt.type # NoType THEN tt.type ELSE detectChartType(data),
                         title |-> tt.title, data |-> data,
                         position |-> calculatePosition(Len(acc.charts))]),
           seen |-> acc.seen \cup {createDataSignature(data)}]

\* the accumulator after the fenced (fenced = TRUE) or the inline loop
RECURSIVE ExpectedLoop(_, _, _, _)
ExpectedLoop(matches, j, acc, fenced) ==
  IF j > Len(matches) \/ Len(acc.charts) >= MAX_CHARTS THEN acc
  ELSE LET seg == matches[j]
           parses == IF fenced THEN ParsesWhole(seg) ELSE ParsesPart(seg)
           found == IF fenced THEN extractTitleBeforeCodeBlock(seg.pre)
                    ELSE extractTitleNearData(seg.pre)
       IN ExpectedLoop(matches, j + 1,
            IF parses THEN ExpectedAccept(acc, seg.body.val, found) ELSE acc, fenced)

\* the ChartSpecs of the table (tables = TRUE) or the list strategy
RECURSIVE ExpectedLocal(_, _, _, _)
ExpectedLocal(matches, j, acc, tables) ==
  IF j > Len(matches) THEN acc
  ELSE LET seg == matches[j]
           emits == IF tables
                    THEN /\ Len(BodyRows(seg.rows)) > 0
                         /\ Len(NonEmpty(seg.headers)) >= 2
                         /\ Len(TableData(BodyRows(seg.rows))) > 0
                    ELSE Len(ListData(listContent(seg.items))) >= 3
           c == IF tables THEN TableChart(seg, 0, Len(acc)) ELSE ListChart(seg, 0, Len(acc))
       IN ExpectedLocal(matches, j + 1, IF emits THEN Append(acc, Shown(c)) ELSE acc, tables)

\* the result of extract as a function of the text alone
Expected(txt) ==
  LET a == ExpectedLoop(FenceMatches(txt), 1, [charts |-> <<>>, seen |-> {}], TRUE)
      b == ExpectedLoop(JsonMatches(txt), 1, a, FALSE).charts
      c == IF Len(b) < MAX_CHARTS
           THEN b \o slice(ExpectedLocal(TableMatches(txt), 1, <<>>, TRUE), MAX_CHARTS - Len(b))
           ELSE b
  IN IF Len(c) < MAX_CHARTS
     THEN c \o slice(ExpectedLocal(ListMatches(txt), 1, <<>>, FALSE), MAX_CHARTS - Len(c))
     ELSE c

\* C16: the type, title, data and position of the ChartSpecs a call returns,
\* in order, are a function of its text alone: whatever the clock reads and
\* whatever calls on whatever texts came before it, a call on a text returns
\* the same result.
C16_ResultDependsOnTextOnly ==
  pc = "done" => [j \in 1..Len(charts) |-> Shown(charts[j])] = Expected(text)

\* C16 witness: the second call has returned, with one chart for a text
\* that holds one dataset twice (the earlier calls include one on that text)
C16_Witness ==
  /\ pc = "done"
  /\ calls = 2
  /\ Len(charts) = 1
  /\ text \in TwiceTexts

\* the next candidate of the fenced or inline loop does not parse
UnparsableNext ==
  \/ /\ pc = "fenced"
     /\ i <= Len(FenceMatches(text))
     /\ Len(charts) < MAX_CHARTS
     /\ ~ParsesWhole(FenceMatches(text)[i])
  \/ /\ pc = "inline"
     /\ i <= Len(JsonMatches(text))
     /\ Len(charts) < MAX_CHARTS
     /\ ~ParsesPart(JsonMatches(text)[i])

\* C17: a fenced block or inline array that does not parse is skipped: the
\* step that meets it leaves charts and the seen signatures as they are and
\* goes on to the next candidate of the same loop, inside the call.
C17_ParseFailureSkipped ==
  [][UnparsableNext =>
       /\ charts' = charts
       /\ seenDataSignatures' = seenDataSignatures
       /\ pc' = pc
       /\ i' = i + 1
       /\ verdict' = "parsefail"]_vars

\* C17 witness: a call has returned with at least two charts, the second
\* from a fenced block that follows a block that did not parse
C17_Witness ==
  /\ pc = "done"
  /\ Len(charts) >= 2
  /\ \E j \in 1..Len(text) :
       /\ text[j].kind = "fence" /\ ~text[j].body.ok
       /\ \E k \in (j + 1)..Len(text) :
            text[k].kind = "fence" /\ text[k].body.ok /\ charts[2].data = text[k].body.val

\* the records the claim states for the body rows of a table: name is the
\* first non-empty cell, value the number parsed from the second; rows with
\* an empty name or a value that is 0 or does not parse are left out
RECURSIVE ClaimedTableData(_)
ClaimedTableData(rows) ==
  IF Len(rows) = 0 THEN <<>>
  ELSE LET cells == NonEmpty(Head(rows))
           name == IF Len(cells) >= 1 THEN cells[1] ELSE ""
           value == IF Len(cells) >= 2 THEN parseFloat(cells[2]) ELSE NaN
       IN (IF name # "" /\ value # NaN /\ value # Num(0)
           THEN <<Obj(<<F("name", Str(name)), F("value", value)>>)>> ELSE <<>>)
          \o ClaimedTableData(Tail(rows))

\* the data of the charts the claim states for the tables of a text
RECURSIVE ClaimedTables(_)
ClaimedTables(tables) ==
  IF Len(tables) = 0 THEN <<>>
  ELSE LET data == ClaimedTableData(Head(tables).rows)
       IN (IF Len(data) > 0 THEN <<Arr(data)>> ELSE <<>>) \o ClaimedTables(Tail(tables))

\* the table strategy has gone through all the tables of the text
TablesScanned == pc = "tables" /\ Len(charts) < MAX_CHARTS /\ i > Len(TableMatches(text))

\* C18: for the tables of a text, each with a header row, a separator row,
\* body rows and at least 2 columns, the table strategy emits one bar
\* ChartSpec per table that has a row left, with one {name, value} record
\* per body row in row order, leaving out only the rows with an empty name
\* or a value that is 0 or does not parse.
C18_TableCharts ==
  (/\ TablesScanned
   /\ \A j \in 1..Len(TableMatches(text)) :
        Len(TableMatches(text)[j].headers) >= 2 /\ Len(TableMatches(text)[j].rows) >= 1)
  => /\ [j \in 1..Len(local) |-> local[j].data] = ClaimedTables(TableMatches(text))
     /\ \A j \in 1..Len(local) : local[j].type = "bar"

IsListSection(seg) == seg.kind = "list"

\* the pairs the claim states for the lines of a section: the label and the
\* number with its thousands separators removed, for the lines that hold a
\* number
RECURSIVE ClaimedListData(_)
ClaimedListData(items) ==
  IF Len(items) = 0 THEN <<>>
  ELSE LET value == parseFloat(StripCommas(Head(items).num))
       IN (IF Head(items).label # "" /\ value # NaN
           THEN <<Obj(<<F("name", Str(Head(items).label)), F("value", value)>>)>>
           ELSE <<>>)
          \o ClaimedListData(Tail(items))

\* the data of the charts the claim states for the sections of a text
RECURSIVE ClaimedLists(_)
ClaimedLists(sections) ==
  IF Len(sections) = 0 THEN <<>>
  ELSE LET data == ClaimedListData(Head(sections).items)
       IN (IF Len(data) >= 3 THEN <<Arr(data)>> ELSE <<>>) \o ClaimedLists(Tail(sections))

\* the list strategy has gone through all the sections it matches
ListsScanned == pc = "lists" /\ Len(charts) < MAX_CHARTS /\ i > Len(ListMatches(text))

\* C19: for the labelled sections of a text, the list strategy emits one bar
\* ChartSpec per section with at least 3 lines "label: number", bulleted or
\* numbered, whose data is all the pairs in line order, the numbers parsed
\* without their thousands separators; a section with fewer pairs gives none.
C19_ListCharts ==
  ListsScanned =>
    /\ [j \in 1..Len(local) |-> local[j].data] = ClaimedLists(SelectSeq(text, IsListSection))
    /\ \A j \in 1..Len(local) : local[j].type = "bar"

\* two grid rectangles share a cell
Overlap(a, b) ==
  /\ a.x < b.x + b.w /\ b.x < a.x + a.w
  /\ a.y < b.y + b.h /\ b.y < a.y + a.h

\* the rectangle the claim states for an index
ClaimedPosition(index) ==
  [x |-> (index % 2) * 6, y |-> (index \div 2) * 4, w |-> 6, h |-> 4]

\* C20: calculatePosition(index) is {x: (index mod 2)*6, y:
\* floor(index/2)*4, w: 6, h: 4} wherever it is called, in the fenced and
\* inline loops with the number of charts and in the table and list
\* strategies with the length of their own array; the rectangles of the
\* indices 0..7 do not overlap and stay within 12 columns.
C20_PositionFormula ==
  /\ pc \in {"fenced", "inline"} =>
       /\ \A j \in 1..Len(charts) :
            /\ charts[j].position = ClaimedPosition(j - 1)
            /\ charts[j].position.x + charts[j].position.w <= 12
       /\ \A j, k \in 1..Len(charts) :
            j < k => ~Overlap(charts[j].position, charts[k].position)
  /\ \A j \in 1..Len(local) : local[j].position = ClaimedPosition(j - 1)

\* C20 witness: the fenced loop has pushed 8 charts, at the indices 0..7
C20_Witness ==
  /\ pc = "inline"
  /\ Len(charts) = 8
  /\ charts[8].position = [x |-> 6, y |-> 12, w |-> 6, h |-> 4]

\* the place of a strategy in the order of the code
Rank(p) ==
  CASE p = "fenced" -> 1
    [] p = "inline" -> 2
    [] p = "tables" -> 3
    [] p = "lists" -> 4
    [] OTHER -> 5

\* xs is the beginning of ys
IsPrefix(xs, ys) == Len(xs) <= Len(ys) /\ SubSeq(ys, 1, Len(xs)) = xs

\* the ChartSpecs that a step adds at the end of charts
Added == SubSeq(charts', Len(charts) + 1, Len(charts'))

\* C21: the strategies run in the order fenced, inline, tables, lists and
\* never go back; every step keeps the ChartSpecs accepted so far, unchanged
\* and in place, and adds at their end only ChartSpecs taken from candidates
\* of the strategy that is running.  So in every result the fenced charts
\* precede the inline ones, these the table ones, these the list ones.
C21_StrategyOrder ==
  [][/\ Rank(pc') >= Rank(pc)
     /\ IsPrefix(charts, charts')
     /\ (charts' # charts /\ pc = "fenced") =>
          (Len(Added) = 1 /\ Added[1].data = FenceMatches(text)[i].body.val)
     /\ (charts' # charts /\ pc = "inline") =>
          (Len(Added) = 1 /\ Added[1].data = JsonMatches(text)[i].body.val)
     /\ (charts' # charts /\ pc \in {"tables", "lists"}) => IsPrefix(Added, local)
     /\ (local' # local /\ local' # <<>> /\ pc = "tables") =>
          local' = Append(local, TableChart(TableMatches(text)[i], now', Len(local)))
     /\ (local' # local /\ local' # <<>> /\ pc = "lists") =>
          local' = Append(local, ListChart(ListMatches(text)[i], now', Len(local)))]_vars

\* C21 witness: a call has returned a fenced, an inline and a table chart in
\* this order for a text whose table stands before its inline array
C21_Witness ==
  /\ pc = "done"
  /\ Len(text) >= 2
  /\ text[Len(text) - 1].kind = "table"
  /\ text[Len(text)].kind = "inline"
  /\ Len(charts) = 3
  /\ charts[1].data = V(1)
  /\ charts[2].data = text[Len(text)].body.val
  /\ charts[3].data = EastWest

\* the ChartSpecs without their ids
ShownAll(cs) == [j \in 1..Len(cs) |-> Shown(cs[j])]

\* C22: the step that ends the table (or list) strategy with k < 8 charts
\* accepted appends exactly the first min(t, 8 - k) of the t charts the
\* strategy finds in the text, in their order; and no step of the inline,
\* table or list strategy changes charts once 8 are accepted.
C22_RemainingSlots ==
  [][/\ (pc = "tables" /\ pc' = "lists" /\ Len(charts) < 8) =>
          LET found == ExpectedLocal(TableMatches(text), 1, <<>>, TRUE)
          IN /\ IsPrefix(charts, charts')
             /\ ShownAll(Added) = SubSeq(found, 1, Min(Len(found), 8 - Len(charts)))
     /\ (pc = "lists" /\ pc' = "done" /\ Len(charts) < 8) =>
          LET found == ExpectedLocal(ListMatches(text), 1, <<>>, FALSE)
          IN /\ IsPrefix(charts, charts')
             /\ ShownAll(Added) = SubSeq(found, 1, Min(Len(found), 8 - Len(charts)))
     /\ (Len(charts) >= 8 /\ pc \in {"inline", "tables", "lists"}) => charts' = charts]_vars

\* C22 witness: the table strategy has ended on a text with 7 accepted
\* charts and 2 tables, and one slot was filled
C22_Witness ==
  /\ pc = "lists"
  /\ i = 1
  /\ local = <<>>
  /\ Len(charts) = 8
  /\ Len(TableMatches(text)) = 2
  /\ Len(DistinctValidFenced(text, 1, {})) = 7
  /\ charts[8].data = EastWest

\* no title text was found: the capture is null or empty
Unresolved(raw) == OrElse(raw, NoRaw) = NoRaw

\* the last step of the table loop pushed a chart for the table before i
TablePushed ==
  /\ pc = "tables"
  /\ i > 1
  /\ LET seg == TableMatches(text)[i - 1]
     IN /\ Len(BodyRows(seg.rows)) > 0
        /\ Len(NonEmpty(seg.headers)) >= 2
        /\ Len(TableData(BodyRows(seg.rows))) > 0

\* the last step of the list loop pushed a chart for the section before i
ListPushed ==
  /\ pc = "lists"
  /\ i > 1
  /\ Len(ListData(listContent(ListMatches(text)[i - 1].items))) >= 3

\* C23: a ChartSpec built for a candidate in front of which no title is
\* found has the title "Chart N", N being one plus the number of charts
\* accepted before it in the run, for the candidates of every strategy.
C23_FallbackTitle ==
  /\ (JustAccepted /\ Unresolved(FoundTitle)) =>
        charts[Len(charts)].title = ChartN(Len(charts))
  /\ (TablePushed /\ Unresolved(extractTitleNearData(TableMatches(text)[i - 1].pre))) =>
        local[Len(local)].title = ChartN(Len(charts) + Len(local))
  /\ (ListPushed /\ Unresolved(Raw(FALSE, FirstCharacter(ListMatches(text)[i - 1].ltitle), "plain", ""))) =>
        local[Len(local)].title = ChartN(Len(charts) + Len(local))

\* the same for the fenced and inline candidates alone
FencedInlineFallback ==
  (JustAccepted /\ Unresolved(FoundTitle)) =>
     charts[Len(charts)].title = ChartN(Len(charts))

\* the last step of the fenced loop pushed a ChartSpec
FencedAccepted == pc = "fenced" /\ i > 1 /\ verdict = "accepted"

\* the text the first matching rule gives, in the order bold, heading, colon
FirstRule(pre) ==
  IF pre.bold.form # "null" THEN StripChartTitle(pre.bold)
  ELSE IF pre.heading.form # "null" THEN pre.heading
  ELSE pre.colon

\* some rule matches in the window before the block
SomeRule(pre) ==
  pre.bold.form # "null" \/ pre.heading.form # "null" \/ pre.colon.form # "null"

\* C24 as stated: the raw title of a fenced candidate is the text of the
\* first rule that matches, in the order bold, heading, colon, and it is
\* "Chart N" only when no rule matches.
C24_TitlePriority ==
  FencedAccepted =>
    LET pre == LastCandidate.pre
        titleRaw == IF SomeRule(pre) THEN FirstRule(pre) ELSE ChartN(Len(charts))
    IN charts[Len(charts)].title = extractTitleAndType(titleRaw).title

\* C24 amended: the raw title is the text of the first rule that matches,
\* in the order bold, heading, colon, when that text is not empty; it is
\* "Chart N" when no rule matches or the text of the first matching rule
\* is empty (bold text that is only the "Chart Title:" prefix).
C24_TitlePriorityOrEmpty ==
  FencedAccepted =>
    LET pre == LastCandidate.pre
        titleRaw == IF SomeRule(pre) /\ ~Unresolved(FirstRule(pre))
                    THEN FirstRule(pre) ELSE ChartN(Len(charts))
    IN charts[Len(charts)].title = extractTitleAndType(titleRaw).title

\* C24 witness: a block after "## **Both**" was accepted with the bold text
\* as its title
C24_Witness ==
  /\ FencedAccepted
  /\ LastCandidate.pre.bold.form # "null"
  /\ LastCandidate.pre.heading.form # "null"
  /\ charts[Len(charts)].title.base = "Both"

\* C30: the data of the ChartSpec pushed for a fenced or inline candidate is
\* the parsed array itself, its records in their original order and
\* unchanged; the sort of the signature works on a copy.
C30_DataOrderKept ==
  JustAccepted => charts[Len(charts)].data = cand

\* C30 witness: a candidate whose records are not in the order of the
\* signature sort was accepted
C30_Witness ==
  /\ JustAccepted
  /\ SortedCopy(cand.e, Len(cand.e)) # cand.e
  /\ charts[Len(charts)].data = cand

(***************************************************************************)
(* ChatInterface and DashboardChatPanel                                    *)
(***************************************************************************)
\* the longest list of messages of a component
MaxMessages == 5

\* what the input field holds: nothing, a blank, a question
Inputs == {"", " ", "Show sales"}

\* input.trim()
trim(s) == IF s = " " THEN "" ELSE s

\* the text of a response of the backend
Answer == "Sales by region"

\* "Backend returned an error: " + response.status
BackendErrorText == "Backend returned an error: 500"

ErrorText == "Sorry, I encountered an error. Please try again."

Message(role, txt) == [role |-> role, text |-> txt]

\* the state updater of onChunk: updated[updated.length - 1] = {role:
\* 'assistant', text: botText}; on an empty array the assignment adds no
\* element
ReplaceLast(msgs, txt) ==
  IF Len(msgs) = 0 THEN msgs
  ELSE [msgs EXCEPT ![Len(msgs)] = Message("assistant", txt)]

\* the parser is not running
ParserIdle ==
  /\ calls = 1
  /\ text = <<>>
  /\ pc = "done"
  /\ i = 1
  /\ charts = <<>>
  /\ seenDataSignatures = {}
  /\ local = <<>>
  /\ now = 0
  /\ cand = NotArray
  /\ verdict = "none"

\* ChatInterface: onChange of the input, which is disabled while loading
ChatSetInput ==
  /\ ~chatLoading
  /\ \E v \in Inputs : chatInput' = v
  /\ UNCHANGED <<chatMessages, chatLoading, chatInFlight>>
  /\ UNCHANGED <<parserVars, panelVars, storeVars>>

\* ChatInterface.handleSend up to its await
ChatHandleSend ==
  /\ Len(chatMessages) + 2 <= MaxMessages
  /\ IF trim(chatInput) = "" \/ chatLoading
     THEN UNCHANGED chatVars
     ELSE /\ chatMessages' = chatMessages \o
               <<Message("user", chatInput), Message("assistant", "")>>
          /\ chatLoading' = TRUE
          /\ chatInput' = ""
          /\ chatInFlight' = chatInFlight + 1
  /\ UNCHANGED <<parserVars, panelVars, storeVars>>

\* sendMessage gets a response that is ok and calls onChunk with its text;
\* handleSend resumes after the await
ChatResponseOk ==
  /\ chatInFlight > 0
  /\ chatMessages' = ReplaceLast(chatMessages, Answer)
  /\ chatLoading' = FALSE
  /\ chatInFlight' = chatInFlight - 1
  /\ UNCHANGED chatInput
  /\ UNCHANGED <<parserVars, panelVars, storeVars>>

\* sendMessage gets a response that is not ok, calls onChunk with the error
\* text and returns; handleSend resumes after the await
ChatBackendError ==
  /\ chatInFlight > 0
  /\ chatMessages' = ReplaceLast(chatMessages, BackendErrorText)
  /\ chatLoading' = FALSE
  /\ chatInFlight' = chatInFlight - 1
  /\ UNCHANGED chatInput
  /\ UNCHANGED <<parserVars, panelVars, storeVars>>

\* fetch or response.json() rejects: sendMessage rejects, and the await in
\* handleSend, which stands in no try block, throws out of handleSend
ChatReject ==
  /\ chatInFlight > 0
  /\ chatInFlight' = chatInFlight - 1
  /\ UNCHANGED <<chatInput, chatMessages, chatLoading>>
  /\ UNCHANGED <<parserVars, panelVars, storeVars>>

\* clearChat, confirmed
clearChat ==
  /\ chatMessages' = <<>>
  /\ UNCHANGED <<chatInput, chatLoading, chatInFlight>>
  /\ UNCHANGED <<parserVars, panelVars, storeVars>>

\* DashboardChatPanel: onChange of the input, which is disabled while
\* loading, or a suggestion chip
SetInput ==
  /\ ~isLoading
  /\ \E v \in Inputs : input' = v
  /\ UNCHANGED <<messages, isLoading, inFlight, request, storeLoading>>
  /\ UNCHANGED <<parserVars, chatVars, storeVars>>

\* DashboardChatPanel.handleSend up to its await
handleSend ==
  /\ Len(messages) + 2 <= MaxMessages
  /\ IF trim(input) = "" \/ isLoading
     THEN UNCHANGED panelVars
     ELSE /\ messages' = messages \o
               <<Message("user", input), Message("assistant", "")>>
          /\ isLoading' = TRUE
          /\ storeLoading' = TRUE
          /\ input' = ""
          /\ inFlight' = inFlight + 1
          /\ request' = "pending"
  /\ UNCHANGED <<parserVars, chatVars, storeVars>>

\* sendDashboardMessage resolves: onChunk, then the finally block
Resolve ==
  /\ inFlight > 0
  /\ messages' = ReplaceLast(messages, Answer)
  /\ isLoading' = FALSE
  /\ storeLoading' = FALSE
  /\ inFlight' = inFlight - 1
  /\ request' = "resolved"
  /\ UNCHANGED input
  /\ UNCHANGED <<parserVars, chatVars, storeVars>>

\* the catch block alone: the flags are not reset
RejectWithoutFinally ==
  /\ inFlight > 0
  /\ messages' = SubSeq(messages, 1, Len(messages) - 1) \o
                   <<Message("assistant", ErrorText)>>
  /\ inFlight' = inFlight - 1
  /\ request' = "rejected"
  /\ UNCHANGED <<input, isLoading, storeLoading>>
  /\ UNCHANGED <<parserVars, chatVars, storeVars>>

\* sendDashboardMessage rejects (fetch fails, the status is not ok or the
\* body is no JSON): the catch block, then the finally block
Reject ==
  /\ inFlight > 0
  /\ messages' = SubSeq(messages, 1, Len(messages) - 1) \o
                   <<Message("assistant", ErrorText)>>
  /\ isLoading' = FALSE
  /\ storeLoading' = FALSE
  /\ inFlight' = inFlight - 1
  /\ request' = "rejected"
  /\ UNCHANGED input
  /\ UNCHANGED <<parserVars, chatVars, storeVars>>

InitChat ==
  /\ ParserIdle
  /\ UiInit

NextChat ==
  \/ ChatSetInput
  \/ ChatHandleSend
  \/ ChatResponseOk
  \/ ChatBackendError
  \/ ChatReject
  \/ clearChat
  \/ SetInput
  \/ handleSend
  \/ Resolve
  \/ Reject

\* A call of fetch settles: the browser answers every request with a
\* response or an error, and the event loop then runs the continuation of
\* the await.
SpecChat ==
  /\ InitChat
  /\ [][NextChat]_vars
  /\ WF_vars(ChatResponseOk \/ ChatBackendError \/ ChatReject)
  /\ WF_vars(Resolve \/ Reject)

\* C26: in ChatInterface every send that starts is followed by isLoading
\* being false again, whether the request succeeds, returns an error status
\* or fails.
C26_LoadingEnds == chatLoading ~> ~chatLoading

\* ChatInterface is loading and no request is in flight
ChatStuck == chatLoading /\ chatInFlight = 0

\* C27: DashboardChatPanel has at most one request in flight; every send
\* that starts is followed by the local isLoading and the store's isLoading
\* both being false; and the step of a rejection replaces the empty
\* assistant placeholder, which follows the user's message, by the error
\* message and changes no other message.
C27_PanelSend ==
  /\ [](inFlight <= 1)
  /\ (isLoading \/ storeLoading) ~> (~isLoading /\ ~storeLoading)
  /\ [][(request' = "rejected" /\ request = "pending") =>
          /\ Len(messages) >= 2
          /\ messages[Len(messages)] = Message("assistant", "")
          /\ messages[Len(messages) - 1].role = "user"
          /\ messages' = [messages EXCEPT ![Len(messages)] = Message("assistant", ErrorText)]
          /\ ~isLoading' /\ ~storeLoading']_vars

\* C27 witness: the second send of the panel was rejected and both flags
\* are false
C27_Witness ==
  /\ request = "rejected"
  /\ Len(messages) = 5
  /\ messages[5] = Message("assistant", ErrorText)
  /\ messages[4].role = "user"
  /\ ~isLoading
  /\ ~storeLoading
  /\ inFlight = 0

(***************************************************************************)
(* dashboardStore, DashboardPanel and ChartEditorModal                     *)
(***************************************************************************)
\* The ChartSpecs are kept in the store as the parser returns them; the
\* time stamps createdAt, updatedAt and lastUpdated, which no handler reads,
\* are left out.

\* the largest dashboard on which the user deletes, duplicates and edits
MaxStore == 3

\* the number of operations of the user on the dashboard
MaxOps == 3

\* the responses from which charts are generated: a fenced block and a
\* table, an inline array and a list, and a run of fenced blocks that
\* fills the result
StoreTexts ==
  { <<Fence(NoPre, Json(V(1))),
      Table(NoPre, <<"Region", "Sales">>, <<<<"East", "120">>, <<"West", "95">>>>)>>,
    <<Inline(NoPre, Json(EastWest)),
      List("Totals", <<Item("North", "1,200"), Item("South", "7"), Item("East", "5")>>)>>,
    Run(MAX_CHARTS) }

\* `chart_${Date.now()}`, an id without index
DuplicateId(time) == [time |-> time, n |-> 0 - 1]

\* `${chart.title} (Copy)`
CopyTitle(title) == [copyOf |-> title]

\* the title typed in the editor
EditedTitle == Raw(FALSE, "Edited", "plain", "")

\* where the user drops a chart
DragTo == [x |-> 6, y |-> 8, w |-> 6, h |-> 4]

\* {...chart, ...updates}
Merge(chart, updates) ==
  [f \in DOMAIN chart \cup DOMAIN updates |->
     IF f \in DOMAIN updates THEN updates[f] ELSE chart[f]]

\* the charts array after updateChart(id, updates)
updateChart(chs, id, updates) ==
  [k \in 1..Len(chs) |-> IF chs[k].id = id THEN Merge(chs[k], updates) ELSE chs[k]]

\* the charts array after removeChart(id)
removeChart(chs, id) ==
  LET Kept(c) == c.id # id
  IN SelectSeq(chs, Kept)

\* charts.find((c) => c.id === id): the index of the first chart with the id,
\* 0 when there is none
find(chs, id) ==
  IF \E k \in 1..Len(chs) : chs[k].id = id
  THEN CHOOSE k \in 1..Len(chs) :
         chs[k].id = id /\ \A m \in 1..(k - 1) : chs[m].id # id
  ELSE 0

\* v || d on a number
OrDefault(v, d) == IF v = 0 THEN d ELSE v

\* the grid item DashboardPanel builds for the chart at index idx (from 0)
GridItem(chart, idx) ==
  [i |-> chart.id,
   x |-> OrDefault(chart.position.x, (idx % 2) * 6),
   y |-> OrDefault(chart.position.y, (idx \div 2) * 4),
   w |-> OrDefault(chart.position.w, 6),
   h |-> OrDefault(chart.position.h, 4)]

gridLayout(chs) == [k \in 1..Len(chs) |-> GridItem(chs[k], k - 1)]

\* newLayout.forEach((item) => updateChart(item.i, {position: ...})), from
\* item j on
RECURSIVE UpdatePositions(_, _, _)
UpdatePositions(chs, newLayout, j) ==
  IF j > Len(newLayout) THEN chs
  ELSE LET item == newLayout[j]
       IN UpdatePositions(
            updateChart(chs, item.i,
              [position |-> [x |-> item.x, y |-> item.y, w |-> item.w, h |-> item.h]]),
            newLayout, j + 1)

\* handleGenerateChartsFromLastResponse: parseDashboardCommands calls the
\* parser with the text of the last assistant message
handleGenerateChartsFromLastResponse ==
  /\ pc = "done"
  /\ ~pending
  /\ calls < MaxCalls
  /\ calls' = calls + 1
  /\ text' \in StoreTexts
  /\ pc' = "fenced"
  /\ i' = 1
  /\ charts' = <<>>
  /\ seenDataSignatures' = {}
  /\ local' = <<>>
  /\ cand' = NotArray
  /\ verdict' = "none"
  /\ pending' = TRUE
  /\ UNCHANGED <<now, storeCharts, layout, editingChartId, editedChart, ops>>
  /\ UNCHANGED <<chatVars, panelVars>>

\* parseDashboardCommands after the parser returned: addCharts(parsedCharts)
\* when there are any; every ChartSpec has an id, which addCharts keeps
addCharts ==
  /\ pc = "done"
  /\ pending
  /\ storeCharts' = IF Len(charts) > 0 THEN storeCharts \o charts ELSE storeCharts
  /\ pending' = FALSE
  /\ UNCHANGED <<layout, editingChartId, editedChart, ops>>
  /\ UNCHANGED <<parserVars, chatVars, panelVars>>

\* handleDeleteChart; the widgets lie under the overlay of an open editor
handleDeleteChart ==
  /\ ~pending
  /\ ops < MaxOps
  /\ ops' = ops + 1
  /\ editedChart = Null
  /\ Len(storeCharts) <= MaxStore
  /\ \E k \in 1..Len(storeCharts) :
       storeCharts' = removeChart(storeCharts, storeCharts[k].id)
  /\ UNCHANGED <<layout, editingChartId, editedChart, pending>>
  /\ UNCHANGED <<parserVars, chatVars, panelVars>>

\* handleDuplicateChart: duplicateChart(id) copies the first chart with the id
handleDuplicateChart ==
  /\ ~pending
  /\ ops < MaxOps
  /\ ops' = ops + 1
  /\ editedChart = Null
  /\ Len(storeCharts) < MaxStore
  /\ \E k \in 1..Len(storeCharts) :
       LET chart == storeCharts[find(storeCharts, storeCharts[k].id)]
       IN /\ now' \in ClockReadings
          /\ storeCharts' = Append(storeCharts,
               [chart EXCEPT !.id = DuplicateId(now'),
                             !.title = CopyTitle(chart.title),
                             !.position.y = chart.position.y + chart.position.h + 1])
  /\ UNCHANGED <<layout, editingChartId, editedChart, pending>>
  /\ UNCHANGED <<calls, text, pc, i, charts, seenDataSignatures, local, cand, verdict>>
  /\ UNCHANGED <<chatVars, panelVars>>

\* handleClearAll, confirmed
handleClearAll ==
  /\ ~pending
  /\ ops < MaxOps
  /\ ops' = ops + 1
  /\ editedChart = Null
  /\ Len(storeCharts) > 0
  /\ storeCharts' = <<>>
  /\ layout' = <<>>
  /\ UNCHANGED <<editingChartId, editedChart, pending>>
  /\ UNCHANGED <<parserVars, chatVars, panelVars>>

\* handleLayoutChange with the layout of the grid, which is gridLayout as it
\* is, or with one item dropped somewhere by the user
handleLayoutChange ==
  /\ ~pending
  /\ ops < MaxOps
  /\ ops' = ops + 1
  /\ Len(storeCharts) > 0
  /\ \E newLayout \in {gridLayout(storeCharts)} \cup
        {[gridLayout(storeCharts) EXCEPT ![k].x = DragTo.x, ![k].y = DragTo.y] :
           k \in 1..Min(Len(storeCharts), MaxStore)} :
       /\ layout' = newLayout
       /\ storeCharts' = UpdatePositions(storeCharts, newLayout, 1)
  /\ UNCHANGED <<editingChartId, editedChart, pending>>
  /\ UNCHANGED <<parserVars, chatVars, panelVars>>

\* handleEditChart: the editor mounts with a copy of the first chart with
\* the id in its state
handleEditChart ==
  /\ ~pending
  /\ ops < MaxOps
  /\ ops' = ops + 1
  /\ editedChart = Null
  /\ Len(storeCharts) <= MaxStore
  /\ \E k \in 1..Len(storeCharts) :
       /\ editingChartId' = storeCharts[k].id
       /\ editedChart' = storeCharts[find(storeCharts, storeCharts[k].id)]
  /\ UNCHANGED <<storeCharts, layout, pending>>
  /\ UNCHANGED <<parserVars, chatVars, panelVars>>

\* ChartEditorModal: updateChart('title', value)
EditTitle ==
  /\ ~pending
  /\ ops < MaxOps
  /\ ops' = ops + 1
  /\ editedChart # Null
  /\ editedChart' = [editedChart EXCEPT !.title = EditedTitle]
  /\ UNCHANGED <<storeCharts, layout, editingChartId, pending>>
  /\ UNCHANGED <<parserVars, chatVars, panelVars>>

\* ChartEditorModal.handleSave: handleSaveChart(editedChart), then onClose
handleSave ==
  /\ ~pending
  /\ ops < MaxOps
  /\ ops' = ops + 1
  /\ editedChart # Null
  /\ storeCharts' = updateChart(storeCharts, editedChart.id, editedChart)
  /\ editingChartId' = Null
  /\ editedChart' = Null
  /\ UNCHANGED <<layout, pending>>
  /\ UNCHANGED <<parserVars, chatVars, panelVars>>

\* onClose: the close button or a click on the overlay
onClose ==
  /\ ~pending
  /\ ops < MaxOps
  /\ ops' = ops + 1
  /\ editedChart # Null
  /\ editingChartId' = Null
  /\ editedChart' = Null
  /\ UNCHANGED <<storeCharts, layout, pending>>
  /\ UNCHANGED <<parserVars, chatVars, panelVars>>

InitStore ==
  /\ calls = 0
  /\ text = <<>>
  /\ pc = "done"
  /\ i = 1
  /\ charts = <<>>
  /\ seenDataSignatures = {}
  /\ local = <<>>
  /\ now = 0
  /\ cand = NotArray
  /\ verdict = "none"
  /\ UiInit

NextStore ==
  \/ FencedStep
  \/ FencedExit
  \/ InlineStep
  \/ InlineExit
  \/ TablesSkip
  \/ TableStep
  \/ TablesAppend
  \/ ListsSkip
  \/ ListStep
  \/ ListsAppend
  \/ handleGenerateChartsFromLastResponse
  \/ addCharts
  \/ handleDeleteChart
  \/ handleDuplicateChart
  \/ handleClearAll
  \/ handleLayoutChange
  \/ handleEditChart
  \/ EditTitle
  \/ handleSave
  \/ onClose

SpecStore == InitStore /\ [][NextStore]_vars

\* C25: the charts of the store have pairwise distinct ids.
C25_StoreIdsDistinct ==
  \A j, k \in 1..Len(storeCharts) :
    j # k => storeCharts[j].id # storeCharts[k].id

\* C28: the grid item of every chart of the store has the x, y, w and h of
\* the stored position, at every index.
C28_GridItemIsPosition ==
  \A k \in 1..Len(storeCharts) :
    LET item == gridLayout(storeCharts)[k]
    IN [x |-> item.x, y |-> item.y, w |-> item.w, h |-> item.h] = storeCharts[k].position

\* C29: a save in the editor changes, of the chart that is edited, the
\* title when the user typed one and nothing else, so that a position
\* written to the store since the editor opened is kept; and it changes no
\* other chart.
C29_SaveChangesEditedFieldsOnly ==
  [][handleSave =>
       /\ Len(storeCharts') = Len(storeCharts)
       /\ \A k \in 1..Len(storeCharts) :
            IF k = find(storeCharts, editingChartId)
            THEN storeCharts'[k] =
                   [storeCharts[k] EXCEPT
                      !.title = IF editedChart.title = EditedTitle THEN EditedTitle ELSE @]
            ELSE storeCharts'[k] = storeCharts[k]]_vars

\* the same, when the ids of the store are distinct and the edited chart
\* was not changed in the store while the editor was open
SaveOfUnchangedChart ==
  [][(/\ handleSave
      /\ C25_StoreIdsDistinct
      /\ storeCharts[find(storeCharts, editingChartId)].position = editedChart.position) =>
       /\ Len(storeCharts') = Len(storeCharts)
       /\ \A k \in 1..Len(storeCharts) :
            IF k = find(storeCharts, editingChartId)
            THEN storeCharts'[k] =
                   [storeCharts[k] EXCEPT
                      !.title = IF editedChart.title = EditedTitle THEN EditedTitle ELSE @]
            ELSE storeCharts'[k] = storeCharts[k]]_vars

====
